---- MODULE Spec2Model ----
(***************************************************************************)
(* postnuc (src/tigr/postnuc_main.cc): the stream parser of main().  It     *)
(* reads the mgaps match stream from stdin line by line, remaps every      *)
(* reference coordinate of the concatenated reference back to its          *)
(* sequence, collects the matches into clusters and the clusters into      *)
(* synteny regions, and hands the regions of one query sequence to         *)
(* merge_syntenys::processSyntenys_each when the query id changes or the   *)
(* input ends.                                                             *)
(*                                                                         *)
(* Text is modelled as sequences of one-character strings, so the header   *)
(* tokenisation (operator>> and getline) and string::find are computed,    *)
(* not assumed.  Af[Seqi] is 0-based in the code and 1-based here.         *)
(***************************************************************************)
EXTENDS Integers, Sequences, FiniteSets, TLC

\* ------------------------------------------------------------------ bounds
\* Number of lines the match stream on stdin may hold.
MaxLines == 4
\* Longest reference sequence (FastaRecord::len) of the reference file.
MaxSeqLen == 2
\* Number of records the query file may hold.
MaxQry == 2
\* Width in bits of long int (sA, sB, len of line 186) in the model; the
\* build has 64.
LongBits == 5
\* The largest long int.
LONG_MAX == 2^(LongBits - 1) - 1

\* ------------------------------------------------------------- text helpers
SP == " "
NL == "\n"
GT == ">"
\* The characters operator>> takes for whitespace.
WS == {SP, NL}
\* The needle of Line.find(" Reverse"), line 250.
REVERSE_STR == <<" ", "R", "e", "v", "e", "r", "s", "e">>
\* DirB values, line 250.
FORWARD_CHAR == "forward"
REVERSE_CHAR == "reverse"

\* The empty std::string: a default FastaRecord's Id(), line 179.
EmptyStr == <<>>

\* operator>> skips leading whitespace, newlines included: first index >= i
\* holding none.
RECURSIVE SkipWs(_, _)
SkipWs(s, i) ==
  IF i <= Len(s) /\ s[i] \in WS THEN SkipWs(s, i + 1) ELSE i

\* operator>> then reads up to the next whitespace: first index >= i holding
\* whitespace, or Len(s)+1.
RECURSIVE TokenEnd(_, _)
TokenEnd(s, i) ==
  IF i <= Len(s) /\ s[i] \notin WS THEN TokenEnd(s, i + 1) ELSE i

\* std::getline reads up to the next newline: first index >= i holding one,
\* or Len(s)+1.
RECURSIVE LineEnd(_, _)
LineEnd(s, i) ==
  IF i <= Len(s) /\ s[i] # NL THEN LineEnd(s, i + 1) ELSE i

\* std::string::find from position i; 0 stands for string::npos.
RECURSIVE FindFrom(_, _, _)
FindFrom(hay, needle, i) ==
  IF i + Len(needle) - 1 > Len(hay) THEN 0
  ELSE IF SubSeq(hay, i, i + Len(needle) - 1) = needle THEN i
  ELSE FindFrom(hay, needle, i + 1)

Find(hay, needle) == FindFrom(hay, needle, 1)

\* Lines 245-249 on the text of the stream at a header: cin.get() takes the
\* '>', cin >> CurrIdB the next token of the stream, getline the rest of the
\* line the token ends in.  lines is the number of lines consumed.
ReadHeaderLine(line) ==
  LET b == SkipWs(line, 2)
      e == TokenEnd(line, b)
      n == LineEnd(line, e)
  IN  [id    |-> SubSeq(line, b, e - 1),
       rest  |-> SubSeq(line, e, n - 1),
       lines |-> IF LineEnd(line, 1) < e THEN 2 ELSE 1]

\* Line 250: the strand of the header.
StrandOfSwapped(rest) ==
  IF Find(rest, REVERSE_STR) = 0 THEN REVERSE_CHAR ELSE FORWARD_CHAR

StrandOf(rest) ==
  IF Find(rest, REVERSE_STR) = 0 THEN FORWARD_CHAR ELSE REVERSE_CHAR

\* ------------------------------------------------------------------ inputs
RefIds == {"a", "b"}
RefRecords == [id : RefIds, len : 0..MaxSeqLen]
\* The reference file: one or two records, ids not necessarily unique.  The
\* program treats ids alike, so the first record is named "a".
RefFiles ==
  {f \in {<<r>> : r \in RefRecords} \cup {<<r, s>> : r, s \in RefRecords} :
     f[1].id = "a"}

QryIdA == <<"A">>
QryIdB == <<"R", "e", "v", "e", "r", "s", "e">>
QryIds == {QryIdA, QryIdB}
\* A query sequence named "1".
QryId1 == <<"1">>
RECURSIVE SeqsUpTo(_, _)
SeqsUpTo(S, n) ==
  IF n = 0 THEN {<<>>}
  ELSE LET shorter == SeqsUpTo(S, n - 1)
       IN  shorter \cup {Append(q, x) : q \in shorter, x \in S}
\* The query file, as the ids of its records in file order.
QryFiles == SeqsUpTo(QryIds, MaxQry)

\* Header lines of the match stream, as mgaps writes them: "> id" and
\* "> id Reverse".
HeaderLines ==
  {<<GT, SP>> \o id \o rest : id \in QryIds, rest \in {<<>>, REVERSE_STR}}

\* Header lines that name no id: nothing, or only blanks, after the '>'.
EmptyHeaderLines == {<<GT>>, <<GT, SP>>}
\* The line after such a header: a match line, or the next header.
FollowingLines == {<<"1", SP, "1", SP, "2">>, <<GT, SP>> \o QryIdA}
\* The text of the stream at a header, when n lines were consumed: a header
\* line; a header line without id that ends the stream; or one followed by
\* another line.
HeaderTexts(n) ==
  HeaderLines \cup EmptyHeaderLines
    \cup (IF n + 2 <= MaxLines
          THEN {e \o <<NL>> \o f : e \in EmptyHeaderLines, f \in FollowingLines}
          ELSE {})

\* sum over the store of (length + 1): the length of the concatenated
\* reference, one sentinel per sequence.
RECURSIVE Total(_)
Total(af) == IF af = <<>> THEN 0 ELSE af[1].len + 1 + Total(Tail(af))

\* Reference coordinates a match line may carry: 0, every position of the
\* concatenation (sentinels included) and one past it.
RefCoords(af) == 0..(Total(af) + 1)
QryCoords == {1}
\* Match lengths: 1 (never stored, line 308) up to the longest sequence of
\* the store.
RECURSIVE Longest(_)
Longest(af) ==
  IF af = <<>> THEN 0
  ELSE IF af[1].len > Longest(Tail(af)) THEN af[1].len ELSE Longest(Tail(af))

MatchLens(af) == 1..(IF Longest(af) = 0 THEN 1 ELSE Longest(af))

\* Lengths no match has: negative, zero, and the largest long int.
ExtremeLens == {-1, 0, LONG_MAX}
\* The numeric lines "sA sB len" a match line is drawn from: every
\* coordinate with every length; and, with one reference sequence and one
\* query sequence, the second coordinate with the extreme lengths and a
\* line whose query coordinate is 0.
MatchLines(af, qf) ==
  [g : RefCoords(af), sB : QryCoords, len : MatchLens(af)]
    \cup (IF Len(af) = 1 /\ Len(qf) = 1
          THEN [g : {2}, sB : QryCoords, len : ExtremeLens]
                 \cup [g : {1}, sB : {0}, len : {2}]
          ELSE {})

\* What std::cin.peek() can return, by class of character: '>' , '#', the
\* first character of any other line, or EOF.
EOF == "EOF"
HASH == "#"
DIGIT == "m"
Peek(n) == IF n >= MaxLines THEN {EOF} ELSE {GT, HASH, DIGIT, EOF}


\* ------------------------------------------------------------- the program
\* Lines 270-272: the scan loop.  Seqi runs over the store while sA exceeds
\* the current sequence; each skipped sequence takes its length and one
\* sentinel off sA.
RECURSIVE ScanNoSentinel(_, _, _)
ScanNoSentinel(af, Seqi, sA) ==
  IF Seqi <= Len(af) /\ sA > af[Seqi].len
  THEN ScanNoSentinel(af, Seqi + 1, sA - af[Seqi].len)
  ELSE [Seqi |-> Seqi, sA |-> sA]

RECURSIVE ScanStopAtLast(_, _, _)
ScanStopAtLast(af, Seqi, sA) ==
  IF Seqi < Len(af) /\ sA > af[Seqi].len
  THEN ScanStopAtLast(af, Seqi + 1, sA - (af[Seqi].len + 1))
  ELSE [Seqi |-> Seqi, sA |-> sA]

RECURSIVE Scan(_, _, _)
Scan(af, Seqi, sA) ==
  IF Seqi <= Len(af) /\ sA > af[Seqi].len
  THEN Scan(af, Seqi + 1, sA - (af[Seqi].len + 1))
  ELSE [Seqi |-> Seqi, sA |-> sA]

Remap(af, g) == Scan(af, 1, g)

\* Line 273: no sequence qualified.
OutOfRange(af, Seqi) == Seqi > Len(af)

\* Line 280: the match spans across a sequence boundary.
BoundaryError(af, Seqi, sA, len) ==
  sA + len - 1 > af[Seqi].len \/ sA <= 0

\* Line 280 in long int arithmetic: sA + len - 1 overflows when it exceeds
\* LONG_MAX, which is undefined; the test then comes out either way (a
\* wrapped sum is negative and passes, a rearranged comparison rejects).
BoundaryOutcomes(af, Seqi, sA, len) ==
  IF sA + len - 1 > LONG_MAX THEN {TRUE, FALSE}
  ELSE {BoundaryError(af, Seqi, sA, len)}

\* Line 290: std::find_if from rbegin() to rend() on the region's reference
\* id; 0 stands for rend().
RECURSIVE FindRegionFrom(_, _, _, _)
FindRegionFrom(syn, af, id, i) ==
  IF i = 0 THEN 0
  ELSE IF af[syn[i].AfP].id = id THEN i
  ELSE FindRegionFrom(syn, af, id, i - 1)

\* A lookup that never finds a region.
FindRegionNone(syn, af, id) == 0

FindRegion(syn, af, id) == FindRegionFrom(syn, af, id, Len(syn))

\* Line 294: a region of that id exists with another reference length.
NonUniqueNever(af, region, Seqi) == FALSE

NonUnique(af, region, Seqi) == af[region.AfP].len # af[Seqi].len

\* Line 302: *IdA != Af[Seqi].Id().
Straddles(af, idA, Seqi) == af[idA].id # af[Seqi].id

\* Line 308: matches of length <= 1 are not stored.
Keep(len) == len > 1

\* Line 252: the pending synteny set is flushed on a header of another query.
NeedFlushAnySet(id, bfId, syn) == id # bfId

NeedFlush(id, bfId, syn) == id # bfId /\ syn # <<>>

\* A scan that reopens the query file when the id is not the loaded one.
AdvanceQueryFromStart(qf, pos, bfId, id) ==
  LET at == {k \in 1..Len(qf) : qf[k] = id}
  IN  IF id = bfId THEN [pos |-> pos, bfId |-> bfId]
      ELSE IF at = {} THEN [pos |-> Len(qf), bfId |-> bfId]
      ELSE [pos |-> CHOOSE k \in at : \A j \in at : k <= j, bfId |-> id]

\* Line 256: while(CurrIdB != Bf.Id() && Bf.read_sequence(QryFile)).  pos is
\* the number of records read so far; a read at the end of the file fails
\* and ends the loop, with Bf taken as the failed read leaves it: the id it
\* had (line 257 then aborts, as it would on an id the read had emptied).
RECURSIVE AdvanceQuery(_, _, _, _)
AdvanceQuery(qf, pos, bfId, id) ==
  IF id # bfId /\ pos < Len(qf)
  THEN AdvanceQuery(qf, pos + 1, qf[pos + 1], id)
  ELSE [pos |-> pos, bfId |-> bfId]

\* CurrSp, line 177: a reverse iterator into Syntenys.  "singular" is the
\* default-constructed iterator, "valid" designates Syntenys[idx], "dangling"
\* designated an element of a vector that was cleared since.
\* Lines 253 and 317: the n-th call processSyntenys_each(set, bf, ...).
NoFlush == [n |-> 0, bf |-> EmptyStr, set |-> <<>>]
Flush(prev, bfId, syn) == [n |-> prev.n + 1, bf |-> bfId, set |-> syn]
\* The call returns with the regions discarded: Syntenys is empty.
ProcessSyntenysEach(prev, bfId, syn) == [log |-> Flush(prev, bfId, syn), syn |-> <<>>]

SingularSp == [st |-> "singular", idx |-> 0]
ValidSp(i) == [st |-> "valid", idx |-> i]
DanglingSp(i) == [st |-> "dangling", idx |-> i]

\* Line 263: Cluster currCl(DirB).  hdr is a history field: the header line
\* the cluster was created under.
NewCluster(dir, hdr) == [dirB |-> dir, matches |-> <<>>, hdr |-> hdr]

NoLine == [kind |-> "none", text |-> <<>>, sA |-> 0, sB |-> 0, len |-> 0]
HeaderRec(line) == [kind |-> "hdr", text |-> line, sA |-> 0, sB |-> 0, len |-> 0]
MatchRec(g, sB, len) == [kind |-> "match", text |-> <<>>, sA |-> g, sB |-> sB, len |-> len]
CommentRec == [kind |-> "#", text |-> <<>>, sA |-> 0, sB |-> 0, len |-> 0]
GarbageRec == [kind |-> "bad", text |-> <<>>, sA |-> 0, sB |-> 0, len |-> 0]

VARIABLES
  Af,        \* the reference sequences, line 175: <<[id, len], ...>>
  Qf,        \* the ids of the query file's records, in file order
  qpos,      \* number of query records read from QryFile
  BfId,      \* Bf.Id(), line 179
  CurrIdB,   \* line 181
  DirB,      \* line 250
  hdrLine,   \* the header line last read (Line and CurrIdB come from it)
  Syntenys,  \* line 176: <<[AfP, clusters, born], ...>>
  CurrSp,    \* line 177
  IdA,       \* line 182: index of the sequence IdA points into, 0 = nullptr
  currCl,    \* line 263
  c,         \* the character class last peeked, lines 238-264
  pc,        \* "hdr" (243), "clusters" (261), "matches" (264), "exit"
  exitCode,  \* "running", "EXIT_SUCCESS", "EXIT_FAILURE", "SIGNAL"
  nread,     \* history: number of stdin lines consumed
  last,      \* history: the stdin line consumed last
  hashLines, \* history: the ordinals of the '#' lines consumed
  flushed    \* history: the last call of processSyntenys_each, [n, bf, set]

vars == <<Af, Qf, qpos, BfId, CurrIdB, DirB, hdrLine, Syntenys, CurrSp, IdA,
          currCl, c, pc, exitCode, nread, last, hashLines, flushed>>

input == <<Af, Qf>>

\* The state at line 243, first evaluation: Af read (non-empty, line 234),
\* Bf default-constructed, nothing parsed, c = cin.peek() of line 238.  The
\* inputs are every reference file with a one-record query file, and every
\* query file (and the one of a sequence named "1") with a one-record
\* reference file.
Init ==
  /\ \/ Af \in RefFiles /\ Qf = <<QryIdA>>
     \/ Af = <<[id |-> "a", len |-> 2]>> /\ Qf \in QryFiles \cup {<<QryId1>>}
  /\ qpos = 0
  /\ BfId = EmptyStr
  /\ CurrIdB = EmptyStr
  /\ DirB = FORWARD_CHAR
  /\ hdrLine = <<>>
  /\ Syntenys = <<>>
  /\ CurrSp = SingularSp
  /\ IdA = 0
  /\ currCl = NewCluster(FORWARD_CHAR, <<>>)
  /\ c \in Peek(0)
  /\ pc = "hdr"
  /\ exitCode = "running"
  /\ nread = 0
  /\ last = NoLine
  /\ hashLines = {}
  /\ flushed = NoFlush

\* exit(EXIT_FAILURE) of lines 241, 277, 299 and 306.
Abort ==
  /\ pc' = "exit"
  /\ exitCode' = "EXIT_FAILURE"
  /\ c' = c

\* parseAbort of lines 248, 258 and 267 (tigrinc): a fatal error, the process
\* exits with code 1.
ParseAbort == Abort

\* Lines 239-242: the stream does not start with '>'.
BadStart ==
  /\ pc = "hdr"
  /\ c \notin {GT, EOF}
  /\ Abort
  /\ UNCHANGED <<input, qpos, BfId, CurrIdB, DirB, hdrLine, Syntenys, CurrSp,
                 IdA, currCl, nread, last, hashLines, flushed>>

\* The header with the query file advanced first: the flush hands over the
\* newly loaded query sequence.
HeaderEffectAdvanceFirst(id, bfId, pos, qf, syn, sp, log) ==
  LET flush == NeedFlush(id, bfId, syn)
      adv   == AdvanceQuery(qf, pos, bfId, id)
      done  == ProcessSyntenysEach(log, adv.bfId, syn)
  IN  [syn  |-> IF flush THEN done.syn ELSE syn,
       sp   |-> IF flush /\ sp.st = "valid" THEN DanglingSp(sp.idx) ELSE sp,
       log  |-> IF flush THEN done.log ELSE log,
       pos  |-> adv.pos,
       bfId |-> adv.bfId]

\* Lines 252-257 on the header id: flush the pending set, then advance the
\* query file.  processSyntenys_each leaves Syntenys empty, which
\* invalidates CurrSp.
HeaderEffect(id, bfId, pos, qf, syn, sp, log) ==
  LET flush == NeedFlush(id, bfId, syn)
      done  == ProcessSyntenysEach(log, bfId, syn)
      adv   == AdvanceQuery(qf, pos, bfId, id)
  IN  [syn  |-> IF flush THEN done.syn ELSE syn,
       sp   |-> IF flush /\ sp.st = "valid" THEN DanglingSp(sp.idx) ELSE sp,
       log  |-> IF flush THEN done.log ELSE log,
       pos  |-> adv.pos,
       bfId |-> adv.bfId]

\* Lines 243-258 and the peek of line 261: one header.  The id is the next
\* token of the stream, on the header's line or on the line after it; it is
\* empty only when the stream ends before any token.
ReadHeader ==
  /\ pc \in {"hdr", "clusters"}
  /\ c = GT
  /\ \E line \in HeaderTexts(nread) :
       LET h == ReadHeaderLine(line)
           e == HeaderEffect(h.id, BfId, qpos, Qf, Syntenys, CurrSp, flushed)
       IN  /\ nread' = nread + h.lines
           /\ last' = HeaderRec(line)
           /\ hdrLine' = line
           /\ CurrIdB' = h.id
           /\ IF h.id = EmptyStr
              THEN /\ ParseAbort
                   /\ UNCHANGED <<DirB, Syntenys, CurrSp, flushed, qpos, BfId>>
              ELSE /\ DirB' = StrandOf(h.rest)
                   /\ Syntenys' = e.syn
                   /\ CurrSp' = e.sp
                   /\ flushed' = e.log
                   /\ qpos' = e.pos
                   /\ BfId' = e.bfId
                   /\ IF h.id # e.bfId
                      THEN ParseAbort
                      ELSE /\ pc' = "clusters"
                           /\ exitCode' = exitCode
                           /\ c' \in Peek(nread + h.lines)
  /\ UNCHANGED <<input, IdA, currCl, hashLines>>

\* Lines 262-263: a cluster starts.
BeginCluster ==
  /\ pc = "clusters"
  /\ c \notin {GT, EOF}
  /\ IdA' = 0
  /\ currCl' = NewCluster(DirB, hdrLine)
  /\ pc' = "matches"
  /\ UNCHANGED <<input, qpos, BfId, CurrIdB, DirB, hdrLine, Syntenys, CurrSp,
                 c, exitCode, nread, last, hashLines, flushed>>

\* Lines 288-301 on the first accepted match of a cluster: look the region
\* up, or create it.
SelectRegion(af, syn, Seqi, line) ==
  LET found == FindRegion(syn, af, af[Seqi].id)
  IN  IF found = 0
      THEN [syn |-> Append(syn, [AfP |-> Seqi, clusters |-> <<>>, born |-> line]),
            sp |-> ValidSp(Len(syn) + 1), fatal |-> FALSE]
      ELSE [syn |-> syn, sp |-> ValidSp(found),
            fatal |-> NonUnique(af, syn[found], Seqi)]

\* Lines 265-310: one match line.  seqi, g and line are history fields of
\* the stored match: the Seqi the scan ended on, the coordinate as read and
\* the ordinal of its line.
ReadMatch ==
  /\ pc = "matches"
  /\ c = DIGIT
  /\ \E ml \in MatchLines(Af, Qf) :
       LET g    == ml.g
           sB   == ml.sB
           len  == ml.len
           r    == Remap(Af, g)
           sel  == SelectRegion(Af, Syntenys, r.Seqi, nread + 1)
           idA1 == IF IdA = 0 THEN r.Seqi ELSE IdA
           m    == [sA |-> r.sA, sB |-> sB, len |-> len,
                    seqi |-> r.Seqi, g |-> g, line |-> nread + 1]
       IN  /\ nread' = nread + 1
           /\ last' = MatchRec(g, sB, len)
           /\ IF OutOfRange(Af, r.Seqi)
              THEN Abort /\ UNCHANGED <<Syntenys, CurrSp, IdA, currCl>>
              ELSE \E rejected \in BoundaryOutcomes(Af, r.Seqi, r.sA, len) :
                IF rejected
                THEN /\ UNCHANGED <<Syntenys, CurrSp, IdA, currCl, pc, exitCode>>
                     /\ c' \in Peek(nread + 1)
                ELSE /\ IdA' = idA1
                     /\ IF IdA = 0
                        THEN Syntenys' = sel.syn /\ CurrSp' = sel.sp
                        ELSE UNCHANGED <<Syntenys, CurrSp>>
                     /\ IF (IdA = 0 /\ sel.fatal) \/ Straddles(Af, idA1, r.Seqi)
                        THEN Abort /\ UNCHANGED currCl
                        ELSE /\ currCl' = IF Keep(len)
                                          THEN [currCl EXCEPT !.matches = Append(@, m)]
                                          ELSE currCl
                             /\ UNCHANGED <<pc, exitCode>>
                             /\ c' \in Peek(nread + 1)
  /\ UNCHANGED <<input, qpos, BfId, CurrIdB, DirB, hdrLine, hashLines, flushed>>

\* Lines 265-267: the line does not hold three numbers.
ReadGarbage ==
  /\ pc = "matches"
  /\ c = DIGIT
  /\ nread' = nread + 1
  /\ last' = GarbageRec
  /\ ParseAbort
  /\ UNCHANGED <<input, qpos, BfId, CurrIdB, DirB, hdrLine, Syntenys, CurrSp,
                 IdA, currCl, hashLines, flushed>>

\* Line 311 through a CurrSp that designates a region.
PushCluster(syn, sp, cl) ==
  [syn EXCEPT ![sp.idx].clusters = Append(@, cl)]

\* EndCluster with '#' read as a comment inside the cluster: the line is
\* skipped and the cluster stays open.
EndClusterAtHeaderOnly ==
  /\ pc = "matches"
  /\ c \in {HASH, GT, EOF}
  /\ IF c = HASH
     THEN /\ nread' = nread + 1
          /\ last' = CommentRec
          /\ hashLines' = hashLines \cup {nread + 1}
          /\ c' \in Peek(nread + 1)
          /\ UNCHANGED <<Syntenys, pc, exitCode>>
     ELSE /\ CurrSp.st = "valid"
          /\ Syntenys' = PushCluster(Syntenys, CurrSp, currCl)
          /\ pc' = "clusters"
          /\ UNCHANGED <<exitCode, nread, last, hashLines, c>>
  /\ UNCHANGED <<input, qpos, BfId, CurrIdB, DirB, hdrLine, CurrSp, IdA,
                 currCl, flushed>>

\* EndCluster without the ignore_line of line 313: the '#' line stays in the
\* stream.
EndClusterKeepHash ==
  /\ pc = "matches"
  /\ c \in {HASH, GT, EOF}
  /\ Syntenys' = IF CurrSp.st = "valid"
                 THEN PushCluster(Syntenys, CurrSp, currCl)
                 ELSE Syntenys
  /\ pc' = "clusters"
  /\ UNCHANGED <<input, qpos, BfId, CurrIdB, DirB, hdrLine, CurrSp, IdA,
                 currCl, flushed, exitCode, nread, last, hashLines, c>>

\* Lines 311-313 and the peek of line 261: the run of match lines is over.
\* Through a singular or dangling CurrSp the push_back is undefined: the
\* process dies on the access (before line 313 reads anything), or the write
\* lands outside every live region.
EndCluster ==
  /\ pc = "matches"
  /\ c \in {HASH, GT, EOF}
  /\ \/ /\ CurrSp.st = "valid"
        /\ Syntenys' = PushCluster(Syntenys, CurrSp, currCl)
        /\ pc' = "clusters"
        /\ exitCode' = exitCode
     \/ /\ CurrSp.st # "valid"
        /\ Syntenys' = Syntenys
        /\ pc' = "clusters"
        /\ exitCode' = exitCode
     \/ /\ CurrSp.st # "valid"
        /\ Syntenys' = Syntenys
        /\ pc' = "exit"
        /\ exitCode' = "SIGNAL"
  /\ IF c = HASH /\ pc' # "exit"
     THEN /\ nread' = nread + 1
          /\ last' = CommentRec
          /\ hashLines' = hashLines \cup {nread + 1}
          /\ c' \in Peek(nread + 1)
     ELSE UNCHANGED <<nread, last, hashLines, c>>
  /\ UNCHANGED <<input, qpos, BfId, CurrIdB, DirB, hdrLine, CurrSp, IdA,
                 currCl, flushed>>

\* Lines 316-321: end of input.
Finish ==
  /\ pc \in {"hdr", "clusters"}
  /\ c = EOF
  /\ IF Syntenys # <<>>
     THEN /\ flushed' = ProcessSyntenysEach(flushed, BfId, Syntenys).log
          /\ Syntenys' = ProcessSyntenysEach(flushed, BfId, Syntenys).syn
          /\ CurrSp' = IF CurrSp.st = "valid" THEN DanglingSp(CurrSp.idx) ELSE CurrSp
     ELSE UNCHANGED <<flushed, Syntenys, CurrSp>>
  /\ pc' = "exit"
  /\ exitCode' = "EXIT_SUCCESS"
  /\ UNCHANGED <<input, qpos, BfId, CurrIdB, DirB, hdrLine, IdA, currCl, c,
                 nread, last, hashLines>>

Next ==
  \/ BadStart
  \/ ReadHeader
  \/ BeginCluster
  \/ ReadMatch
  \/ ReadGarbage
  \/ EndCluster
  \/ Finish

Spec == Init /\ [][Next]_vars

\* The process is one thread that runs until it exits: a step that can be
\* taken is taken.
FairSpec == Spec /\ WF_vars(Next)


\* ------------------------------------------------------ history and claims
Min(S) == CHOOSE x \in S : \A y \in S : x <= y

RegionClusters(syn) ==
  UNION {{syn[i].clusters[j] : j \in 1..Len(syn[i].clusters)} : i \in 1..Len(syn)}

MatchesOf(cl) == {cl.matches[k] : k \in 1..Len(cl.matches)}

\* Every cluster the run holds or has handed over: the open one, those of
\* the pending regions and those of the last flushed set.
StoredClusters ==
  {currCl} \cup RegionClusters(Syntenys) \cup RegionClusters(flushed.set)

StoredMatches == UNION {MatchesOf(cl) : cl \in StoredClusters}

\* The concatenated reference: sequence i starts after the earlier sequences
\* and their sentinels.
RECURSIVE Offset(_, _)
Offset(af, i) == IF i = 1 THEN 0 ELSE Offset(af, i - 1) + af[i - 1].len + 1

Global(af, i, localStart) == localStart + Offset(af, i)

\* The sequence a global coordinate belongs to (spec 4.1): the first one
\* whose last position is not before g; 0 when there is none.
Resolved(af, g) ==
  LET cand == {i \in 1..Len(af) : g <= Offset(af, i) + af[i].len}
  IN  IF cand = {} THEN 0 ELSE Min(cand)

LocalStart(af, g) == g - Offset(af, Resolved(af, g))

\* A match line that resolves to a sequence but does not lie inside it.
CrossesBoundary(af, g, len) ==
  /\ Resolved(af, g) # 0
  /\ \/ LocalStart(af, g) <= 0
     \/ LocalStart(af, g) + len - 1 > af[Resolved(af, g)].len

Aborted == pc = "exit" /\ exitCode = "EXIT_FAILURE"

\* C1 - Remap round-trip.  For every sequence i of the store, every local
\* start ls and every match length len >= 1 with 1 <= ls and
\* ls + len - 1 <= length(i), the scan loop maps the global coordinate
\* ls + sum over earlier sequences of (length + 1) to exactly (i, ls), and
\* neither the out-of-range test of line 273 nor the boundary test of line
\* 280 fires; a match line carrying such a coordinate, once read without a
\* fatal error, is the match stored last, with that sequence and that start.
C1_RemapRoundTrip ==
  /\ \A i \in 1..Len(Af) : \A ls \in 1..Af[i].len : \A len \in 1..(Af[i].len - ls + 1) :
       LET r == Remap(Af, Global(Af, i, ls))
       IN  /\ r.Seqi = i
           /\ r.sA = ls
           /\ ~OutOfRange(Af, r.Seqi)
           /\ ~BoundaryError(Af, r.Seqi, r.sA, len)
  /\ \A i \in 1..Len(Af) : \A ls \in 1..Af[i].len :
       (/\ last.kind = "match"
        /\ last.sA = Global(Af, i, ls)
        /\ last.len > 1
        /\ ls + last.len - 1 <= Af[i].len
        /\ pc # "exit")
       => /\ currCl.matches # <<>>
          /\ LET m == currCl.matches[Len(currCl.matches)]
             IN  m.line = nread /\ m.seqi = i /\ m.sA = ls

\* A match of the second sequence of the store was read and stored with its
\* local start.
C1_Witness ==
  /\ last.kind = "match"
  /\ pc = "matches"
  /\ currCl.matches # <<>>
  /\ LET m == currCl.matches[Len(currCl.matches)]
     IN  /\ m.line = nread
         /\ m.seqi = 2
         /\ m.sA = 1
         /\ m.len = 2
         /\ last.sA = Af[1].len + 2

\* C2 - Boundary rejection is recoverable and local.  A match line that
\* crosses the boundary of the sequence it resolves to is stored in no
\* cluster, the run does not abort because of it, and the run of match lines
\* it belongs to does not end in a crash.
C2_BoundaryRejectionLocal ==
  /\ \A m \in StoredMatches : ~CrossesBoundary(Af, m.g, m.len)
  /\ (last.kind = "match" /\ CrossesBoundary(Af, last.sA, last.len))
       => /\ ~Aborted
          /\ exitCode # "SIGNAL"

\* The line read last is a match line whose coordinate lies beyond the
\* concatenated reference.
OutOfRangeLine == last.kind = "match" /\ last.sA > Total(Af)

\* C3 - Out-of-range rejection.  A match line whose reference coordinate
\* exceeds the sum of all sequence lengths plus sentinels aborts the run
\* with EXIT_FAILURE; the match is stored nowhere and no later line is read.
C3_OutOfRangeFatal ==
  /\ [](OutOfRangeLine =>
          /\ Aborted
          /\ \A m \in StoredMatches : m.line # nread)
  /\ [][OutOfRangeLine => nread' = nread]_vars

C3_Witness == OutOfRangeLine /\ Aborted /\ Len(Af) = 2 /\ flushed.n = 0


\* C4 - Cross-sequence cluster composition is fatal.  No cluster ever holds
\* two matches that resolved to two different reference sequences of the
\* store: the line that resolves elsewhere aborts the run instead.
C4_OneSequencePerCluster ==
  \A cl \in StoredClusters : \A m1, m2 \in MatchesOf(cl) :
    Resolved(Af, m1.g) = Resolved(Af, m2.g)

\* A match line that resolves to a sequence and lies inside it.
Accepted(line) ==
  /\ line.kind = "match"
  /\ Resolved(Af, line.sA) # 0
  /\ ~CrossesBoundary(Af, line.sA, line.len)

\* A pending region has the id of the sequence the line resolves to, and
\* another reference length.
ClashesWithRegion(syn, line) ==
  \E k \in 1..Len(syn) :
    /\ Af[syn[k].AfP].id = Af[Resolved(Af, line.sA)].id
    /\ Af[syn[k].AfP].len # Af[Resolved(Af, line.sA)].len

\* C8 - Duplicate reference id with mismatched length is fatal.  When the
\* first accepted match of a cluster resolves to a sequence whose id is the
\* id of a pending region with another reference length, the run aborts with
\* EXIT_FAILURE and the regions are left as they were.
C8_DuplicateIdFatal ==
  [][(/\ pc = "matches"
      /\ IdA = 0
      /\ nread' = nread + 1
      /\ Accepted(last')
      /\ ClashesWithRegion(Syntenys, last'))
     => (Aborted' /\ Syntenys' = Syntenys)]_vars

C8_Witness ==
  /\ Aborted
  /\ currCl.matches = <<>>
  /\ Accepted(last)
  /\ ClashesWithRegion(Syntenys, last)
  /\ \E k \in 1..Len(Syntenys) : Syntenys[k].clusters # <<>>

\* The matches pushed into pending or flushed regions.
PushedClusters == RegionClusters(Syntenys) \cup RegionClusters(flushed.set)

\* C9 as stated - the match lines right before and right after a '#' line
\* accumulate into one cluster.
C9_CommentKeepsCluster ==
  \A h \in hashLines : \A cl1, cl2 \in PushedClusters :
    \A m1 \in MatchesOf(cl1), m2 \in MatchesOf(cl2) :
      (m1.line = h - 1 /\ m2.line = h + 1) => cl1 = cl2

\* The id token of a header ends before the first whitespace that follows
\* its first non-whitespace character after the '>'.
IdStart(line) == Min({p \in 2..Len(line) : line[p] \notin WS} \cup {Len(line) + 1})
IdEnd(line) ==
  Min({p \in IdStart(line)..Len(line) : line[p] \in WS} \cup {Len(line) + 1})
\* The line the id is on ends before the next newline.
RestEnd(line) ==
  Min({p \in IdEnd(line)..Len(line) : line[p] = NL} \cup {Len(line) + 1}) - 1

HasReverseAt(line, p) ==
  /\ p + Len(REVERSE_STR) - 1 <= Len(line)
  /\ SubSeq(line, p, p + Len(REVERSE_STR) - 1) = REVERSE_STR

\* " Reverse" occurs after the query id, on the id's line.
SaysReverseAfterId(line) ==
  \E p \in IdEnd(line)..RestEnd(line) :
    HasReverseAt(line, p) /\ p + Len(REVERSE_STR) - 1 <= RestEnd(line)

\* " Reverse" occurs somewhere in the header line.
ContainsReverse(line) == \E p \in 1..Len(line) : HasReverseAt(line, p)

StrandOfHeader(line) ==
  IF SaysReverseAfterId(line) THEN REVERSE_CHAR ELSE FORWARD_CHAR

\* C9 as amended - a '#' line ends the cluster.  No cluster holds a match
\* read before a '#' line together with one read after it: the matches right
\* before and right after the '#' are pushed as two clusters, each with the
\* strand of the header they were read under.
C9_CommentEndsCluster ==
  /\ \A cl \in StoredClusters : \A m1, m2 \in MatchesOf(cl) : \A h \in hashLines :
       ~(m1.line < h /\ h < m2.line)
  /\ \A h \in hashLines : \A cl1, cl2 \in PushedClusters :
       \A m1 \in MatchesOf(cl1), m2 \in MatchesOf(cl2) :
         (m1.line = h - 1 /\ m2.line = h + 1)
         => /\ cl1.hdr = cl2.hdr
            /\ cl1.dirB = StrandOfHeader(cl1.hdr)
            /\ cl2.dirB = StrandOfHeader(cl2.hdr)

C9_Witness ==
  \E h \in hashLines : \E cl1, cl2 \in RegionClusters(Syntenys) :
    \E m1 \in MatchesOf(cl1), m2 \in MatchesOf(cl2) :
      m1.line = h - 1 /\ m2.line = h + 1 /\ cl1 # cl2

\* Clusters created under a header (the initial currCl is under none).
HeaderClusters == {cl \in StoredClusters : cl.hdr # <<>>}

\* C10 as stated - a cluster's strand is reverse iff its header line
\* contains " Reverse".
C10_StrandIffLineHasReverse ==
  \A cl \in HeaderClusters : (cl.dirB = REVERSE_CHAR) <=> ContainsReverse(cl.hdr)

\* C10 as amended - a cluster's strand is reverse iff the part of its header
\* line that follows the query id contains " Reverse", and forward
\* otherwise; the strand is fixed at creation: a match line leaves the open
\* cluster's strand alone, and a pushed cluster keeps its strand while its
\* region is pending.
C10_StrandFromHeaderRest ==
  /\ [](\A cl \in HeaderClusters : cl.dirB = StrandOfHeader(cl.hdr))
  /\ [][pc = "matches" /\ pc' = "matches" => currCl'.dirB = currCl.dirB]_vars
  /\ [][\A i \in 1..Len(Syntenys) : \A j \in 1..Len(Syntenys[i].clusters) :
          Syntenys' # <<>> =>
            /\ i <= Len(Syntenys')
            /\ j <= Len(Syntenys'[i].clusters)
            /\ Syntenys'[i].clusters[j].dirB = Syntenys[i].clusters[j].dirB]_vars

\* A reverse cluster and a forward cluster are pending together.
C10_Witness ==
  \E cl1, cl2 \in RegionClusters(Syntenys) :
    /\ cl1.dirB = REVERSE_CHAR /\ cl1.matches # <<>>
    /\ cl2.dirB = FORWARD_CHAR /\ cl2.matches # <<>>


\* The query id a header line names.
HeaderId(line) == SubSeq(line, IdStart(line), IdEnd(line) - 1)

\* The step reads a header line.
HeaderStep == nread' > nread /\ last'.kind = "hdr"

\* The step is the normal end of the run.
FinishStep == pc # "exit" /\ pc' = "exit" /\ exitCode' = "EXIT_SUCCESS"

\* The step calls processSyntenys_each.
FlushStep == flushed' # flushed

Borns(syn) == {syn[i].born : i \in 1..Len(syn)}

\* C5 - Grouping determinism.  A header that repeats the id of the header
\* before it flushes nothing and leaves the pending set as it is; a header
\* that names another id, and the end of the input, hand a non-empty pending set
\* to processSyntenys_each, once; nothing else does, an empty set is never
\* handed over, no region is handed over twice and none is left pending at
\* the normal exit.
C5_GroupingDeterminism ==
  /\ [][(HeaderStep /\ hdrLine # <<>> /\ HeaderId(last'.text) = HeaderId(hdrLine))
        => (flushed' = flushed /\ Syntenys' = Syntenys)]_vars
  /\ [][((/\ HeaderStep
           /\ hdrLine # <<>>
           /\ HeaderId(last'.text) # EmptyStr
           /\ HeaderId(last'.text) # HeaderId(hdrLine))
         \/ FinishStep) /\ Syntenys # <<>>
        => (/\ flushed'.n = flushed.n + 1
            /\ flushed'.set = Syntenys
            /\ flushed'.bf = HeaderId(hdrLine))]_vars
  /\ [][FlushStep
        => (/\ Syntenys # <<>>
            /\ flushed'.n = flushed.n + 1
            /\ flushed'.set = Syntenys
            /\ Syntenys' = <<>>
            /\ (HeaderStep /\ HeaderId(last'.text) # HeaderId(hdrLine)) \/ FinishStep
            /\ \A b1 \in Borns(flushed.set), b2 \in Borns(Syntenys) : b1 < b2)]_vars
  /\ [](pc = "exit" /\ exitCode = "EXIT_SUCCESS" => Syntenys = <<>>)

\* Two headers of one query id, a match under each, were flushed as one set
\* at the end of the input.
C5_Witness ==
  /\ pc = "exit"
  /\ exitCode = "EXIT_SUCCESS"
  /\ flushed.n = 1
  /\ hashLines = {}
  /\ \E cl1, cl2 \in RegionClusters(flushed.set) :
       \E m1 \in MatchesOf(cl1), m2 \in MatchesOf(cl2) : m1.line = 2 /\ m2.line = 4

\* C6 - Flush-before-advance.  The query sequence handed to
\* processSyntenys_each is the one every cluster of the flushed set was read
\* under, the pending clusters were all read under the loaded query
\* sequence, and the query file is only advanced with nothing pending.
C6_FlushBeforeAdvance ==
  /\ [](\A cl \in RegionClusters(flushed.set) : HeaderId(cl.hdr) = flushed.bf)
  /\ [](\A cl \in RegionClusters(Syntenys) : HeaderId(cl.hdr) = BfId)
  /\ [][qpos' # qpos => Syntenys' = <<>>]_vars

\* A header of the next query flushed the clusters of the one before.
C6_Witness ==
  /\ pc # "exit"
  /\ qpos = 2
  /\ flushed.n = 1
  /\ flushed.bf = Qf[1]
  /\ BfId = Qf[2]
  /\ Qf[1] # Qf[2]
  /\ \E cl \in RegionClusters(flushed.set) : cl.matches # <<>>

\* The id is the loaded query sequence's, or that of a record after it.
FoundAtOrAfter(id) == id = BfId \/ \E k \in (qpos + 1)..Len(Qf) : Qf[k] = id

\* C7 - The query cursor only moves forward.  A header whose id is neither
\* the loaded sequence's nor that of a later record of the query file aborts
\* the run with EXIT_FAILURE, and nothing is read after the abort.
C7_ForwardOnlyCursor ==
  /\ [][qpos' >= qpos]_vars
  /\ [][(HeaderStep /\ ~FoundAtOrAfter(HeaderId(last'.text))) => Aborted']_vars
  /\ [][pc = "exit" => UNCHANGED <<nread, currCl, Syntenys>>]_vars

\* Headers X, Y, X: the third names a record that lies before the loaded one.
C7_Witness ==
  /\ Aborted
  /\ last.kind = "hdr"
  /\ qpos = 2
  /\ HeaderId(last.text) = Qf[1]
  /\ Qf[1] # Qf[2]
  /\ BfId = Qf[2]
  /\ flushed.n = 1
  /\ flushed.bf = Qf[1]

\* The header's own line names no id: nothing but blanks between the '>' and
\* the end of that line.
EmptyIdHeader(text) ==
  \A p \in 2..(LineEnd(text, 1) - 1) : text[p] = SP

\* C11 - An empty header id is fatal.  A header line that consists of '>'
\* followed by no id aborts the run with EXIT_FAILURE; no token of a later
\* line is taken for the query id.
C11_EmptyHeaderIdFatal ==
  (last.kind = "hdr" /\ EmptyIdHeader(last.text))
    => (Aborted /\ CurrIdB = EmptyStr)

\* The matches of the pending regions' clusters, with their region.
RegionMatches ==
  UNION {{[reg |-> Syntenys[i], m |-> m] :
            m \in UNION {MatchesOf(Syntenys[i].clusters[j]) :
                           j \in 1..Len(Syntenys[i].clusters)}} :
         i \in 1..Len(Syntenys)}

\* The line of the match was tested at line 280 without overflow.
NoOverflow(m) == m.sA + m.len - 1 <= LONG_MAX

\* C12 - SyntenyRegion invariant.  For every pending region and every match
\* (of a length that does not overflow) stored in one of its clusters, the
\* sequence the match's coordinate resolved to has the id and the length of
\* the region's reference sequence, and the match lies inside that length.
C12_RegionInvariant ==
  \A x \in RegionMatches :
    NoOverflow(x.m) =>
      /\ Resolved(Af, x.m.g) # 0
      /\ Af[Resolved(Af, x.m.g)].id = Af[x.reg.AfP].id
      /\ Af[Resolved(Af, x.m.g)].len = Af[x.reg.AfP].len
      /\ 1 <= x.m.sA
      /\ x.m.sA + x.m.len - 1 <= Af[x.reg.AfP].len

\* C13 - Stored-match invariant.  Every match pushed into a cluster has
\* length >= 2, a local start >= 1 and a span inside the sequence its
\* coordinate resolved to, whatever numbers the match line carries.
C13_StoredMatchInvariant ==
  \A m \in StoredMatches :
    /\ m.len >= 2
    /\ m.sA >= 1
    /\ Resolved(Af, m.g) # 0
    /\ m.seqi = Resolved(Af, m.g)
    /\ m.sA = LocalStart(Af, m.g)
    /\ m.sA + m.len - 1 <= Af[Resolved(Af, m.g)].len

\* C14 - Query side of the Match data model.  Every stored match has
\* qryStart >= 1.
C14_QryStartPositive == \A m \in StoredMatches : m.sB >= 1

\* Line 311 is the next statement: the run of match lines is over.
AtPush == pc = "matches" /\ c \in {HASH, GT, EOF}

\* C16 - Region cursor validity.  Whenever a cluster is appended, CurrSp
\* designates a region of the current synteny set that an accepted match of
\* that cluster selected or created.
C16_CursorValidAtPush ==
  AtPush =>
    /\ CurrSp.st = "valid"
    /\ CurrSp.idx \in 1..Len(Syntenys)
    /\ IdA # 0
    /\ Af[Syntenys[CurrSp.idx].AfP].id = Af[IdA].id

\* C17 - Every cluster appended to a region, and so every cluster handed to
\* processSyntenys_each, holds at least one match.
C17_NoEmptyCluster == \A cl \in PushedClusters : cl.matches # <<>>

\* q is p with elements appended.
IsPrefix(p, q) == Len(p) <= Len(q) /\ SubSeq(q, 1, Len(p)) = p

\* C18 - Region uniqueness and order.  The pending regions have pairwise
\* distinct reference ids; a region is created only by the first accepted
\* match of a cluster, for the sequence that match resolved to, when no
\* pending region has that id; between flushes regions are only appended,
\* so they stay in creation order; and a region's clusters are only
\* appended, in the order their runs were read.
C18_RegionsUniqueOrdered ==
  /\ [](\A i, j \in 1..Len(Syntenys) :
          i # j => Af[Syntenys[i].AfP].id # Af[Syntenys[j].AfP].id)
  /\ [](\A i, j \in 1..Len(Syntenys) :
          i < j => Syntenys[i].born < Syntenys[j].born)
  /\ [](\A i \in 1..Len(Syntenys) : \A j1, j2 \in 1..Len(Syntenys[i].clusters) :
          \A m1 \in MatchesOf(Syntenys[i].clusters[j1]),
             m2 \in MatchesOf(Syntenys[i].clusters[j2]) :
            j1 < j2 => m1.line < m2.line)
  /\ [][Len(Syntenys') > Len(Syntenys)
        => /\ Len(Syntenys') = Len(Syntenys) + 1
           /\ IdA = 0
           /\ last'.kind = "match"
           /\ Syntenys'[Len(Syntenys')].AfP = Resolved(Af, last'.sA)
           /\ Syntenys'[Len(Syntenys')].clusters = <<>>
           /\ \A i \in 1..Len(Syntenys) :
                Af[Syntenys[i].AfP].id # Af[Resolved(Af, last'.sA)].id]_vars
  /\ [][\/ Syntenys' = <<>> /\ (FlushStep \/ Syntenys = <<>>)
        \/ /\ Len(Syntenys') >= Len(Syntenys)
           /\ \A i \in 1..Len(Syntenys) :
                /\ Syntenys'[i].AfP = Syntenys[i].AfP
                /\ Syntenys'[i].born = Syntenys[i].born
                /\ IsPrefix(Syntenys[i].clusters, Syntenys'[i].clusters)]_vars

\* Two regions are pending, each with a cluster that holds a match.
C18_Witness ==
  /\ Len(Syntenys) = 2
  /\ \A i \in 1..2 : \E j \in 1..Len(Syntenys[i].clusters) :
       Syntenys[i].clusters[j].matches # <<>>

\* C15 - Termination.  The parser ends: by a fatal error (an exit with
\* EXIT_FAILURE, or the fault of line 311 on an unset cursor), or at the end
\* of the input with the pending set flushed and EXIT_SUCCESS.  Every
\* iteration of the header loop and of the match-line loop (the rejected
\* lines included) reads at least one line or ends the run, every
\* iteration of the cluster loop has read a match line or reads the '#'
\* line, and no more than the lines of the stream are read.
C15_Termination ==
  /\ <>(pc = "exit")
  /\ [](nread <= MaxLines)
  /\ [](pc = "exit" /\ exitCode = "EXIT_SUCCESS"
          => c = EOF /\ Syntenys = <<>>)
  /\ [](pc = "matches" /\ c \in {GT, EOF} => last.kind = "match")
  /\ [][FinishStep /\ Syntenys # <<>>
        => flushed'.set = Syntenys /\ flushed'.n = flushed.n + 1]_vars
  /\ [][(c = GT /\ pc \in {"hdr", "clusters"})
        => nread' > nread \/ pc' = "exit"]_vars
  /\ [][pc = "matches" /\ c \in {DIGIT, HASH}
        => nread' > nread \/ pc' = "exit"]_vars
  /\ [][pc = "clusters" /\ c \notin {GT, EOF}
        => pc' = "matches" /\ c' = c]_vars

\* The whole stream was read, with a stored match and a '#' line, and the
\* run ended with the final flush.
C15_Witness ==
  /\ pc = "exit"
  /\ exitCode = "EXIT_SUCCESS"
  /\ nread = MaxLines
  /\ hashLines # {}
  /\ \E cl \in RegionClusters(flushed.set) : cl.matches # <<>>

====
